---- MODULE Spec2Model ----
(***************************************************************************)
(* State-machine model of the SearchAgent ice-breaker pipeline:            *)
(*   IceBreakerApp.process -> IceBreakerService.ice_break_with ->          *)
(*   LinkedinAgent / TwitterAgent lookups, LinkedinService /               *)
(*   TwitterService fetchers, and the three ProfileChainFactory chains.    *)
(* External channels (language model, Scrapin HTTP API, Twitter API) are   *)
(* nondeterministic: every step draws the channel's outcome from a small   *)
(* set.  Strings that the code edits (strip, leading "@") are sequences of *)
(* tokens; all other strings are atoms.                                    *)
(*                                                                         *)
(* Specifications:                                                         *)
(*   Spec       one request, every outcome of every channel;               *)
(*   SpecServe  requests one after another, USE_MOCK_DATA set meanwhile;    *)
(*   SpecOrder  one request, the three chain statements in every order;    *)
(*   SpecPair   two request threads interleaved at every statement.        *)
(* The last three draw each channel's outcome from OrdinaryReplies.        *)
(***************************************************************************)
EXTENDS Integers, Sequences, FiniteSets, TLC

\* ---------------------------------------------------------------- bounds
\* Number of posts the upstream Twitter timeline holds (and may return).
MaxUpstream == 6

\* ------------------------------------------------------ program constants
\* default of max_tweets in scrape_user_tweets / scrape_user_tweets_mock
DefaultMaxTweets == 5

LinkedinSentinel == <<"No LinkedIn profile found">>
TwitterSentinel == <<"No Twitter account found">>

MockPhotoUrl == "https://example.com/profile.jpg"

\* LinkedinService.get_mock_profile: the canned profile document
MockProfile ==
    [name |-> "John Doe",
     summary |-> "Experienced software engineer with a passion for AI and machine learning.",
     photoUrl |-> MockPhotoUrl,
     experiences |-> <<"Senior Software Engineer @ Tech Corp", "Software Engineer @ Startup Inc">>,
     educations |-> <<"Master's Degree in Computer Science @ Tech University">>]

\* TwitterService.scrape_user_tweets_mock: the canned five posts
MockTweets ==
    <<"Excited about the latest developments in AI! #MachineLearning #Innovation",
      "Just published a new article on deep learning techniques. Check it out!",
      "Working on a new project using transformer models. Stay tuned for updates.",
      "Had a great meeting with the team today discussing our AI roadmap for 2023.",
      "Reading 'Artificial Intelligence: A Modern Approach' for the third time. Still learning new things!">>

\* ------------------------------------------------------------ Python bits
Min(a, b) == IF a < b THEN a ELSE b
Max(a, b) == IF a > b THEN a ELSE b

\* Python truthiness of a str: `not s` is true exactly for the empty string
Truthy(s) == s # ""

\* Python list slice xs[:n], negative n counted from the end
PySliceTo(xs, n) ==
    IF n >= 0 THEN SubSeq(xs, 1, Min(n, Len(xs)))
    ELSE SubSeq(xs, 1, Max(Len(xs) + n, 0))

\* whitespace tokens removed by str.strip()
Whitespace == {" ", "\n"}

RECURSIVE LStrip(_)
LStrip(s) == IF s # <<>> /\ Head(s) \in Whitespace THEN LStrip(Tail(s)) ELSE s

RECURSIVE RStrip(_)
RStrip(s) ==
    IF s # <<>> /\ s[Len(s)] \in Whitespace THEN RStrip(SubSeq(s, 1, Len(s) - 1)) ELSE s

\* str.strip()
Strip(s) == RStrip(LStrip(s))

\* " ".join(tweets)
RECURSIVE FormatTweets(_)
FormatTweets(tweets) ==
    IF tweets = <<>> THEN <<>>
    ELSE IF Len(tweets) = 1 THEN <<tweets[1]>>
    ELSE <<tweets[1], " ">> \o FormatTweets(Tail(tweets))

\* ConfigurationManager.get(key, default)
ConfigGet(cfg, key, default) == IF key \in DOMAIN cfg THEN cfg[key] ELSE default

\* Values standing for Python's None and for a local not yet bound
None == [none |-> TRUE]
Unbound == <<"<unbound>">>


\* ------------------------------------------------------------- the agents
\* What the language model can do when a resolver invokes `prompt | llm`:
\* the call raises, the reply's .content cannot be stripped (not a str), or
\* the reply carries text.
ResolverOutcomes(sentinel) ==
    {[kind |-> "invoke_error"], [kind |-> "bad_content"]}
    \cup {[kind |-> "ok", content |-> c] :
            c \in {<<"jane">>, <<" ", "@", "jane", "\n">>, sentinel}}

\* a call that returned `v`
Returned(v) == [raised |-> FALSE, value |-> v]
\* a call that raised exception `e`
Raised(e) == [raised |-> TRUE, exc |-> e]

\* LinkedinAgent.lookup: try: chain.invoke(...).content.strip()
\*                       except Exception: return "No LinkedIn profile found"
LinkedinAgentLookup(name, o) ==
    IF o.kind = "ok" THEN Returned(Strip(o.content))
    ELSE Returned(LinkedinSentinel)

TwitterAgentLookupReraises(name, o) ==
    IF o.kind = "ok"
    THEN LET u == Strip(o.content)
         IN  Returned(IF u # <<>> /\ Head(u) = "@" THEN Tail(u) ELSE u)
    ELSE Raised("LLMError")

\* TwitterAgent.lookup: as above, and a leading "@" is dropped
TwitterAgentLookup(name, o) ==
    IF o.kind = "ok"
    THEN LET u == Strip(o.content)
         IN  Returned(IF u # <<>> /\ Head(u) = "@" THEN Tail(u) ELSE u)
    ELSE Returned(TwitterSentinel)

\* ------------------------------------------------------- LinkedinService
RealProfileWithPhoto ==
    [name |-> "Jane Smith", photoUrl |-> "https://cdn.example/jane.jpg",
     experiences |-> <<"CTO @ Acme">>]
RealProfileNoPhoto == [name |-> "Jane Smith", experiences |-> <<"CTO @ Acme">>]

\* What requests.post / raise_for_status / response.json() can do: hand
\* back a JSON document, or raise (an HTTP error status, a transport
\* failure, a body that is no JSON)
ScrapinOutcomes ==
    {[kind |-> "ok", json |-> d] : d \in {RealProfileWithPhoto, RealProfileNoPhoto}}
    \cup {[kind |-> "raises", exc |-> "requests.HTTPError", msg |-> m] :
            m \in {"500 Server Error", "404 Client Error"}}
    \cup {[kind |-> "raises", exc |-> "requests.ConnectionError", msg |-> "Connection refused"],
          [kind |-> "raises", exc |-> "requests.JSONDecodeError", msg |-> "Expecting value"]}

IsRequestExceptionTransportOnly(exc) ==
    exc \in {"requests.ConnectionError", "requests.JSONDecodeError"}

\* except requests.RequestException: HTTPError, ConnectionError and (with
\* requests >= 2.27) JSONDecodeError are its subclasses
IsRequestException(exc) ==
    exc \in {"requests.HTTPError", "requests.ConnectionError", "requests.JSONDecodeError"}

\* the degraded document of the `except requests.RequestException` branch
ErrorProfile(msg) == [error |-> msg, profile_pic |-> "", summary |-> "", experiences |-> <<>>]

\* LinkedinService.scrape_linkedin_profile.  `sent` lists the requests
\* issued to the Scrapin API.
ScrapeLinkedinProfile(api_key, linkedin_profile_url, o) ==
    IF ~Truthy(api_key)
    THEN Raised("ValueError") @@ [sent |-> <<>>]
    ELSE IF o.kind = "ok"
    THEN Returned(o.json) @@ [sent |-> <<"requests.post">>]
    ELSE IF IsRequestException(o.exc)
    THEN Returned(ErrorProfile(o.msg)) @@ [sent |-> <<"requests.post">>]
    ELSE Raised(o.exc) @@ [sent |-> <<"requests.post">>]

GetMockProfileOfUrl(linkedin_profile_url) ==
    [linkedin_profile_url |-> linkedin_profile_url] @@ MockProfile

\* LinkedinService.get_mock_profile
GetMockProfile(linkedin_profile_url) == MockProfile

\* -------------------------------------------------------- TwitterService
TwitterCredentialKeys ==
    {"TWITTER_API_KEY", "TWITTER_API_SECRET", "TWITTER_ACCESS_TOKEN", "TWITTER_ACCESS_SECRET"}

\* TwitterService._initialize_client: None unless all four credentials are
\* set and tweepy.Client(...) does not raise
InitializeClient(cfg, ctor_ok) ==
    IF ~(\A k \in TwitterCredentialKeys : Truthy(ConfigGet(cfg, k, "")))
    THEN "None"
    ELSE IF ctor_ok THEN "tweepy.Client" ELSE "None"

\* the posts the upstream account holds, newest first
UpstreamTexts == <<"post 1", "post 2", "post 3", "post 4", "post 5", "post 6", "post 7", "post 8">>
Timeline == SubSeq(UpstreamTexts, 1, MaxUpstream)

\* What the Twitter API can do on get_user and then on get_users_tweets.
\* tweepy.Client raises a TweepyException subclass for an HTTP error status;
\* a transport failure surfaces as the requests exception of the session,
\* which is no TweepyException.  A reply's data is whatever the service
\* sent back.
TwitterErrors == {"tweepy.Unauthorized", "tweepy.TooManyRequests", "requests.ConnectionError"}

TwitterOutcomes ==
    {[kind |-> k, exc |-> e] : k \in {"user_raises", "tweets_raises"}, e \in TwitterErrors}
    \cup {[kind |-> k] : k \in {"user_not_found", "no_tweets"}}
    \cup {[kind |-> "tweets", n |-> n] : n \in 1..MaxUpstream}

\* except tweepy.TweepyException
IsTweepyException(exc) == exc \in {"tweepy.Unauthorized", "tweepy.TooManyRequests"}

TwitterRequestsSentWithRetry(o) ==
    IF o.kind = "user_raises"
    THEN <<"get_user", "get_user">>
    ELSE IF o.kind = "user_not_found"
    THEN <<"get_user">>
    ELSE <<"get_user", "get_users_tweets">>

\* the requests scrape_user_tweets has issued when the outcome `o` unfolds
TwitterRequestsSent(o) ==
    IF o.kind \in {"user_raises", "user_not_found"}
    THEN <<"get_user">>
    ELSE <<"get_user", "get_users_tweets">>

\* TwitterService.scrape_user_tweets
ScrapeUserTweets(client, username, max_tweets, o) ==
    IF client = "None"
    THEN Raised("ValueError") @@ [sent |-> <<>>]
    ELSE [sent |-> TwitterRequestsSent(o)] @@
         CASE o.kind \in {"user_raises", "tweets_raises"} ->
                IF IsTweepyException(o.exc) THEN Returned(<<>>) ELSE Raised(o.exc)
           [] o.kind \in {"user_not_found", "no_tweets"} -> Returned(<<>>)
           [] o.kind = "tweets" -> Returned(SubSeq(Timeline, 1, o.n))

\* TwitterService.scrape_user_tweets_mock
ScrapeUserTweetsMock(username, max_tweets) == PySliceTo(MockTweets, max_tweets)


\* ----------------------------------------------- output models and parsers
Schemas == {"Summary", "TopicOfInterest", "IceBreaker"}

\* JSON values as the parser sees them
JStr(x) == [str |-> x]
JList(x) == [list |-> x]
JNull == [null |-> TRUE]

\* Summary.summary: str, Summary.facts: List[str],
\* TopicOfInterest.topics_of_interest: List[str], IceBreaker.ice_breakers:
\* List[str]; none has a default, so each is required
RequiredFields(schema) ==
    CASE schema = "Summary" -> {"summary", "facts"}
      [] schema = "TopicOfInterest" -> {"topics_of_interest"}
      [] schema = "IceBreaker" -> {"ice_breakers"}

FieldType(field) == IF field = "summary" THEN "str" ELSE "list"

\* pydantic (>= 2) validation of one field value against its annotation
HasType(jv, type) == DOMAIN jv = {type}

\* the Python value of a JSON value
Untag(jv) == IF "str" \in DOMAIN jv THEN jv.str ELSE jv.list

\* The replies of the language model to an extraction prompt: text with no
\* JSON in it, or text carrying a JSON object
NoFields == [f \in {} |-> JNull]

JsonObjects ==
    {[summary |-> JStr("Engineer."), facts |-> JList(<<"Likes AI">>)],
     [summary |-> JStr("Engineer."), facts |-> JList(<<>>), note |-> JStr("extra")],
     [summary |-> JStr("Engineer.")],
     [facts |-> JList(<<"Likes AI">>)],
     [summary |-> JStr("Engineer."), facts |-> JStr("Likes AI")],
     [summary |-> JNull, facts |-> JList(<<"Likes AI">>)],
     [topics_of_interest |-> JList(<<"AI", "Robotics">>)],
     [topics_of_interest |-> JNull],
     [ice_breakers |-> JList(<<"How is the AI roadmap going?">>)],
     [ice_breakers |-> JStr("How is the AI roadmap going?")],
     NoFields}

LLMTexts == {[garbage |-> TRUE]} \cup {[json |-> j] : j \in JsonObjects}

\* the value a field would take if it were given a default
FieldDefault(field) == IF FieldType(field) = "str" THEN "" ELSE <<>>

ParserParseLenient(schema, text) ==
    IF "json" \notin DOMAIN text
    THEN Raised("OutputParserException")
    ELSE Returned([f \in RequiredFields(schema) |->
                    IF f \in DOMAIN text.json /\ HasType(text.json[f], FieldType(f))
                    THEN Untag(text.json[f])
                    ELSE FieldDefault(f)])

\* PydanticOutputParser(pydantic_object=schema).parse(text)
ParserParse(schema, text) ==
    IF "json" \notin DOMAIN text
    THEN Raised("OutputParserException")
    ELSE IF \A f \in RequiredFields(schema) :
                f \in DOMAIN text.json /\ HasType(text.json[f], FieldType(f))
    THEN Returned([f \in RequiredFields(schema) |-> Untag(text.json[f])])
    ELSE Raised("OutputParserException")

\* ------------------------------------------------------------- the chains
\* What the language model can do when a chain invokes it
ChainOutcomes == {[kind |-> "llm_error"]} \cup {[kind |-> "text", text |-> t] : t \in LLMTexts}

\* the prompt variables a chain builds from its input (the three lambdas)
ChainPrompt(input) ==
    [information |-> input.information, twitter_posts |-> FormatTweets(input.twitter_posts)]

ChainInvokeSwallowsFailure(schema, input, o) ==
    LET r == IF o.kind = "llm_error" THEN Raised("LLMError") ELSE ParserParse(schema, o.text)
    IN  IF r.raised THEN Returned([f \in RequiredFields(schema) |-> FieldDefault(f)]) ELSE r

\* chain.invoke(input) for `mapping | prompt | self.llm | parser`
ChainInvoke(schema, input, o) ==
    IF o.kind = "llm_error" THEN Raised("LLMError") ELSE ParserParse(schema, o.text)

\* ---------------------------------------------------------------- the app
DictGetDefaultOnly(d, key, default) == default

\* dict.get(key, default)
DictGet(d, key, default) == IF key \in DOMAIN d THEN d[key] ELSE default

UseMockTweetsFlagOnly(use_mock_flag, twitter_client) == use_mock_flag

\* the branch of ice_break_with that picks the post fetcher:
\* `if self.use_mock or not self.twitter_service.client`
UseMockTweets(use_mock_flag, twitter_client) == use_mock_flag \/ twitter_client = "None"

UseMockProfileInverted(use_mock_flag, linkedin_key) == ~use_mock_flag

\* the branch of ice_break_with that picks the profile fetcher: `if self.use_mock`
UseMockProfile(use_mock_flag, linkedin_key) == use_mock_flag

\* IceBreakerApp.process, success: jsonify of the four briefing fields
SuccessResponse(tuple) ==
    [status |-> 200,
     body |-> [summary_and_facts |-> tuple[1], interests |-> tuple[2],
               ice_breakers |-> tuple[3], picture_url |-> tuple[4]]]

\* IceBreakerApp.process, `except Exception`: jsonify({"error": str(e)}), 500
ErrorResponse(e) == [status |-> 500, body |-> [error |-> e]]

BriefingFields == {"summary_and_facts", "interests", "ice_breakers", "picture_url"}

\* ------------------------------------------------------------------ state
VARIABLES
    config,             \* ConfigurationManager.config
    app,                \* "boot" | "ready" | "crashed" (construction raised)
    use_mock,           \* IceBreakerService.use_mock
    api_key,            \* LinkedinService.api_key
    client,             \* TwitterService.client
    pc,                 \* position of the request inside process / ice_break_with
    name,               \* the name of the request
    linkedin_username, linkedin_data, twitter_username, tweets,
    summary_and_facts, interests, ice_breakers, profile_pic_url,
                        \* the locals of ice_break_with
    result,             \* what ice_break_with did: Returned(tuple) | Raised(e)
    response,           \* what process answered
    calls,              \* collaborator methods invoked and requests issued, in order
    chain_in,           \* the input each chain was invoked with
    replies,            \* the outcome each external channel gave this request
    served,             \* requests the process has answered before this one
    tid,                \* the request thread that is running: 1 | 2
    parked              \* the frame of the request thread that is not running

service == <<use_mock, api_key, client>>
locals == <<linkedin_username, linkedin_data, twitter_username, tweets,
            summary_and_facts, interests, ice_breakers, profile_pic_url>>
threads == <<served, tid, parked>>
vars == <<config, app, service, pc, name, locals, result, response, calls,
          chain_in, replies, threads>>

Chains == {"summary", "interests", "ice_breaker"}

\* the external channels of a request: the model behind each resolver and
\* each chain, the Scrapin API, the Twitter API
Channels == {"linkedin", "twitter", "scrapin", "twitter_api"} \cup Chains

\* requests that leave the process
ExternalCalls ==
    {"llm:linkedin", "llm:twitter", "llm:summary", "llm:interests", "llm:ice_breaker",
     "scrapin:requests.post", "twitter:get_user", "twitter:get_users_tweets"}

\* the configurations the process can be started with: every API key set
\* or empty; USE_MOCK_DATA is not loaded from the environment, so it is
\* absent unless a YAML file or config.set supplied it
\* Of the Twitter credentials, all are set, exactly one is missing, or none is set.
Configs ==
    LET keys == [{"OPENAI_API_KEY", "SCRAPIN_API_KEY"} -> {"", "key"}]
        twitter == {[k \in TwitterCredentialKeys |-> "key"],
                    [k \in TwitterCredentialKeys |-> ""]}
                   \cup {[k \in TwitterCredentialKeys |-> IF k = m THEN "" ELSE "key"] :
                            m \in TwitterCredentialKeys}
        base == {a @@ t : a \in keys, t \in twitter}
    IN  base \cup {c @@ [USE_MOCK_DATA |-> b] : c \in base, b \in BOOLEAN}

Names == {"", "Jane Smith"}

\* request.form: with or without the "name" field
Forms == {[name |-> n] : n \in Names} \cup {NoFields}

\* the frame of a request thread that has not entered process yet
IdleFrame ==
    [pc |-> "idle", name |-> "", linkedin_username |-> Unbound, linkedin_data |-> None,
     twitter_username |-> Unbound, tweets |-> <<>>, summary_and_facts |-> None,
     interests |-> None, ice_breakers |-> None, profile_pic_url |-> "",
     result |-> None, response |-> None, calls |-> <<>>,
     chain_in |-> [c \in Chains |-> None], replies |-> [c \in Channels |-> None]]

Init ==
    /\ config \in Configs
    /\ app = "boot"
    /\ use_mock = FALSE
    /\ api_key = ""
    /\ client = "None"
    /\ pc = "idle"
    /\ name = ""
    /\ linkedin_username = Unbound
    /\ linkedin_data = None
    /\ twitter_username = Unbound
    /\ tweets = <<>>
    /\ summary_and_facts = None
    /\ interests = None
    /\ ice_breakers = None
    /\ profile_pic_url = ""
    /\ result = None
    /\ response = None
    /\ calls = <<>>
    /\ chain_in = [c \in Chains |-> None]
    /\ replies = [c \in Channels |-> None]
    /\ served = 0
    /\ tid = 1
    /\ parked = IdleFrame

\* ------------------------------------------------------------ construction
InitializeLLMUnchecked(cfg) == Returned("ChatOpenAI")

\* LinkedinAgent / TwitterAgent / ProfileChainFactory ._initialize_llm
InitializeLLM(cfg) ==
    IF ~Truthy(ConfigGet(cfg, "OPENAI_API_KEY", "")) THEN Raised("ValueError") ELSE Returned("ChatOpenAI")

\* IceBreakerApp._initialize -> IceBreakerService.__init__
Construct ==
    /\ app = "boot"
    /\ IF InitializeLLM(config).raised
       THEN /\ app' = "crashed"
            /\ UNCHANGED service
       ELSE /\ app' = "ready"
            /\ api_key' = ConfigGet(config, "SCRAPIN_API_KEY", "")
            /\ \E ctor_ok \in BOOLEAN : client' = InitializeClient(config, ctor_ok)
            /\ use_mock' = ConfigGet(config, "USE_MOCK_DATA", FALSE)
    /\ UNCHANGED <<config, threads, pc, name, locals, result, response, calls, chain_in, replies>>

\* ---------------------------------------------------------------- request
\* ice_break_with's `except Exception: raise`, then process's
\* `except Exception: return jsonify({"error": str(e)}), 500`
Abort(e) ==
    /\ result' = Raised(e)
    /\ response' = ErrorResponse(e)
    /\ pc' = "responded"

ProcessReadsMode ==
    /\ app = "ready"
    /\ pc = "idle"
    /\ use_mock' = ConfigGet(config, "USE_MOCK_DATA", FALSE)
    /\ \E form \in Forms :
         IF "name" \notin DOMAIN form
         THEN /\ response' = ErrorResponse("KeyError")
              /\ pc' = "responded"
              /\ UNCHANGED name
         ELSE /\ name' = form.name
              /\ pc' = "linkedin_lookup"
              /\ UNCHANGED response
    /\ UNCHANGED <<config, app, api_key, client, threads, locals, result, calls,
                   chain_in, replies>>

\* IceBreakerApp.process up to the call of ice_break_with
Process ==
    /\ app = "ready"
    /\ pc = "idle"
    /\ \E form \in Forms :
         IF "name" \notin DOMAIN form
         THEN /\ response' = ErrorResponse("KeyError")
              /\ pc' = "responded"
              /\ UNCHANGED name
         ELSE /\ name' = form.name
              /\ pc' = "linkedin_lookup"
              /\ UNCHANGED response
    /\ UNCHANGED <<config, app, service, threads, locals, result, calls, chain_in, replies>>

\* linkedin_username = self.linkedin_agent.lookup(name=name)
LinkedinLookup ==
    /\ pc = "linkedin_lookup"
    /\ \E o \in ResolverOutcomes(LinkedinSentinel) :
         LET r == LinkedinAgentLookup(name, o)
         IN  /\ calls' = calls \o <<"linkedin_agent.lookup", "llm:linkedin">>
             /\ replies' = [replies EXCEPT !["linkedin"] = o]
             /\ IF r.raised
                THEN Abort(r.exc) /\ UNCHANGED linkedin_username
                ELSE /\ linkedin_username' = r.value
                     /\ pc' = "linkedin_fetch"
                     /\ UNCHANGED <<result, response>>
    /\ UNCHANGED <<config, app, service, threads, name, linkedin_data, twitter_username, tweets,
                   summary_and_facts, interests, ice_breakers, profile_pic_url,
                   chain_in>>

\* linkedin_data = get_mock_profile(...) if self.use_mock else scrape_linkedin_profile(...)
LinkedinFetch ==
    /\ pc = "linkedin_fetch"
    /\ IF UseMockProfile(use_mock, api_key)
       THEN /\ linkedin_data' = GetMockProfile(linkedin_username)
            /\ calls' = Append(calls, "linkedin_service.get_mock_profile")
            /\ pc' = "twitter_lookup"
            /\ UNCHANGED <<result, response, replies>>
       ELSE \E o \in ScrapinOutcomes :
              LET r == ScrapeLinkedinProfile(api_key, linkedin_username, o)
              IN  /\ calls' = calls \o <<"linkedin_service.scrape_linkedin_profile">>
                                    \o [i \in 1..Len(r.sent) |-> "scrapin:" \o r.sent[i]]
                  /\ replies' = IF r.sent = <<>> THEN replies
                                 ELSE [replies EXCEPT !["scrapin"] = o]
                  /\ IF r.raised
                     THEN Abort(r.exc) /\ UNCHANGED linkedin_data
                     ELSE /\ linkedin_data' = r.value
                          /\ pc' = "twitter_lookup"
                          /\ UNCHANGED <<result, response>>
    /\ UNCHANGED <<config, app, service, threads, name, linkedin_username, twitter_username, tweets,
                   summary_and_facts, interests, ice_breakers, profile_pic_url,
                   chain_in>>

\* twitter_username = self.twitter_agent.lookup(name=name)
TwitterLookup ==
    /\ pc = "twitter_lookup"
    /\ \E o \in ResolverOutcomes(TwitterSentinel) :
         LET r == TwitterAgentLookup(name, o)
         IN  /\ calls' = calls \o <<"twitter_agent.lookup", "llm:twitter">>
             /\ replies' = [replies EXCEPT !["twitter"] = o]
             /\ IF r.raised
                THEN Abort(r.exc) /\ UNCHANGED twitter_username
                ELSE /\ twitter_username' = r.value
                     /\ pc' = "twitter_fetch"
                     /\ UNCHANGED <<result, response>>
    /\ UNCHANGED <<config, app, service, threads, name, linkedin_username, linkedin_data, tweets,
                   summary_and_facts, interests, ice_breakers, profile_pic_url,
                   chain_in>>

\* tweets = scrape_user_tweets_mock(...) if self.use_mock or not client
\*          else scrape_user_tweets(...)
TwitterFetch ==
    /\ pc = "twitter_fetch"
    /\ IF UseMockTweets(use_mock, client)
       THEN /\ tweets' = ScrapeUserTweetsMock(twitter_username, DefaultMaxTweets)
            /\ calls' = Append(calls, "twitter_service.scrape_user_tweets_mock")
            /\ pc' = "summary_chain"
            /\ UNCHANGED <<result, response, replies>>
       ELSE \E o \in TwitterOutcomes :
              LET r == ScrapeUserTweets(client, twitter_username, DefaultMaxTweets, o)
              IN  /\ calls' = calls \o <<"twitter_service.scrape_user_tweets">>
                                    \o [i \in 1..Len(r.sent) |-> "twitter:" \o r.sent[i]]
                  /\ replies' = IF r.sent = <<>> THEN replies
                                 ELSE [replies EXCEPT !["twitter_api"] = o]
                  /\ IF r.raised
                     THEN Abort(r.exc) /\ UNCHANGED tweets
                     ELSE /\ tweets' = r.value
                          /\ pc' = "summary_chain"
                          /\ UNCHANGED <<result, response>>
    /\ UNCHANGED <<config, app, service, threads, name, linkedin_username, linkedin_data,
                   twitter_username, summary_and_facts, interests, ice_breakers,
                   profile_pic_url, chain_in>>

ChainInputThreaded ==
    [information |-> IF summary_and_facts # None THEN summary_and_facts ELSE linkedin_data,
     twitter_posts |-> tweets]

\* the input ice_break_with hands to each chain
ChainInput == [information |-> linkedin_data, twitter_posts |-> tweets]

\* create_<chain>_chain().invoke(input=...): one model call, then the parser
ChainStep(chain, schema, at, next) ==
    /\ pc = at
    /\ \E o \in ChainOutcomes :
         LET r == ChainInvoke(schema, ChainInput, o)
         IN  /\ calls' = calls \o <<chain \o "_chain.invoke", "llm:" \o chain>>
             /\ chain_in' = [chain_in EXCEPT ![chain] = ChainPrompt(ChainInput)]
             /\ replies' = [replies EXCEPT ![chain] = o]
             /\ IF r.raised
                THEN /\ Abort(r.exc)
                     /\ UNCHANGED <<summary_and_facts, interests, ice_breakers>>
                ELSE /\ summary_and_facts' = IF chain = "summary" THEN r.value ELSE summary_and_facts
                     /\ interests' = IF chain = "interests" THEN r.value ELSE interests
                     /\ ice_breakers' = IF chain = "ice_breaker" THEN r.value ELSE ice_breakers
                     /\ pc' = next
                     /\ UNCHANGED <<result, response>>
    /\ UNCHANGED <<config, app, service, threads, name, linkedin_username, linkedin_data,
                   twitter_username, tweets, profile_pic_url>>

SummaryChainBeforePosts == ChainStep("summary", "Summary", "twitter_fetch", "interests_chain")

SummaryChain == ChainStep("summary", "Summary", "summary_chain", "interests_chain")

InterestsChain == ChainStep("interests", "TopicOfInterest", "interests_chain", "ice_breaker_chain")

IceBreakerChain == ChainStep("ice_breaker", "IceBreaker", "ice_breaker_chain", "assemble")

\* profile_pic_url = linkedin_data.get("photoUrl", ""); return the tuple;
\* process unpacks it and answers jsonify({...})
Return ==
    /\ pc = "assemble"
    /\ LET pic == DictGet(linkedin_data, "photoUrl", "")
           tuple == <<summary_and_facts, interests, ice_breakers, pic>>
       IN  /\ profile_pic_url' = pic
           /\ result' = Returned(tuple)
           /\ response' = SuccessResponse(tuple)
    /\ pc' = "responded"
    /\ UNCHANGED <<config, app, service, threads, name, linkedin_username, linkedin_data,
                   twitter_username, tweets, summary_and_facts, interests, ice_breakers,
                   calls, chain_in, replies>>

Next ==
    \/ Construct
    \/ Process
    \/ LinkedinLookup
    \/ LinkedinFetch
    \/ TwitterLookup
    \/ TwitterFetch
    \/ SummaryChain
    \/ InterestsChain
    \/ IceBreakerChain
    \/ Return

Spec == Init /\ [][Next]_vars

\* ------------------------------------------------------------ vocabulary
\* the method or request `m` has been invoked in this request
Called(m) == \E i \in DOMAIN calls : calls[i] = m

\* the local that holds a chain's result
ChainLocal(c) ==
    CASE c = "summary" -> summary_and_facts
      [] c = "interests" -> interests
      [] c = "ice_breaker" -> ice_breakers

SchemaOf(c) ==
    CASE c = "summary" -> "Summary"
      [] c = "interests" -> "TopicOfInterest"
      [] c = "ice_breaker" -> "IceBreaker"

\* ice_break_with has finished by raising / by returning
IbwRaised == result # None /\ result.raised
IbwReturned == result # None /\ ~result.raised

\* a reply of the model that carries a JSON object with every required
\* field of the schema, each of the declared type
ReplyUsable(schema, o) ==
    /\ o.kind = "text"
    /\ "json" \in DOMAIN o.text
    /\ \A f \in RequiredFields(schema) :
         f \in DOMAIN o.text.json /\ DOMAIN o.text.json[f] = {FieldType(f)}

\* the chain was invoked and failed: its model call raised, or the reply
\* is malformed or violates the schema
ChainFailed(c) == replies[c] # None /\ ~ReplyUsable(SchemaOf(c), replies[c])

\* the profile fetch / the post fetch of the request has returned
ProfileFetched == linkedin_data # None
TweetsFetched ==
    \/ pc \in {"summary_chain", "interests_chain", "ice_breaker_chain", "assemble"}
    \/ replies["summary"] # None

\* a typed record of the output models: exactly the schema's fields, a str
\* or a list of str in each
Conforms(schema, rec) ==
    /\ DOMAIN rec = RequiredFields(schema)
    /\ \A f \in RequiredFields(schema) :
         IF FieldType(f) = "str" THEN rec[f] \in STRING ELSE rec[f] \in Seq(STRING)

\* the 4-tuple (Summary, TopicOfInterest, IceBreaker, picture URL)
IsBriefingTuple(t) ==
    /\ Len(t) = 4
    /\ Conforms("Summary", t[1])
    /\ Conforms("TopicOfInterest", t[2])
    /\ Conforms("IceBreaker", t[3])
    /\ t[4] \in STRING

\* ------------------------------------------------- a process serving on
\* requests the process answers in one behaviour
MaxRequests == 2

\* the replies of the external channels in the scenarios with several
\* requests: each channel answers well or fails in one way
OrdinaryReplies ==
    /\ \A ch \in {"linkedin", "twitter"} :
         replies[ch] # None =>
            \/ replies[ch].kind = "invoke_error"
            \/ replies[ch].kind = "ok" /\ replies[ch].content = <<"jane">>
    /\ replies["scrapin"] # None =>
         \/ replies["scrapin"].kind = "ok"
         \/ replies["scrapin"].exc = "requests.HTTPError" /\ replies["scrapin"].msg = "500 Server Error"
    /\ replies["twitter_api"] # None =>
         \/ replies["twitter_api"].kind = "tweets" /\ replies["twitter_api"].n = 2
         \/ replies["twitter_api"].kind = "user_raises"
              /\ replies["twitter_api"].exc = "requests.ConnectionError"
    /\ \A c \in Chains :
         replies[c] # None =>
            replies[c].kind = "llm_error" \/ ReplyUsable(SchemaOf(c), replies[c])

\* a step of a request whose channel answers ordinarily
Ordinarily(A) == A /\ OrdinaryReplies'

\* one step of IceBreakerApp.process / ice_break_with
RequestStep ==
    \/ Ordinarily(Process)
    \/ Ordinarily(LinkedinLookup)
    \/ Ordinarily(LinkedinFetch)
    \/ Ordinarily(TwitterLookup)
    \/ Ordinarily(TwitterFetch)
    \/ Ordinarily(SummaryChain)
    \/ Ordinarily(InterestsChain)
    \/ Ordinarily(IceBreakerChain)
    \/ Return

\* the route is entered again: a fresh frame for process and ice_break_with
NewRequest ==
    /\ pc = "responded"
    /\ served + 1 < MaxRequests
    /\ served' = served + 1
    /\ pc' = "idle"
    /\ name' = ""
    /\ linkedin_username' = Unbound
    /\ linkedin_data' = None
    /\ twitter_username' = Unbound
    /\ tweets' = <<>>
    /\ summary_and_facts' = None
    /\ interests' = None
    /\ ice_breakers' = None
    /\ profile_pic_url' = ""
    /\ result' = None
    /\ response' = None
    /\ calls' = <<>>
    /\ chain_in' = [c \in Chains |-> None]
    /\ replies' = [c \in Channels |-> None]
    /\ UNCHANGED <<config, app, service, tid, parked>>

\* ConfigurationManager.set("USE_MOCK_DATA", b) while the process serves;
\* no other key is read after construction
ConfigSet ==
    /\ app = "ready"
    /\ \E b \in BOOLEAN :
         config' = [k \in DOMAIN config \cup {"USE_MOCK_DATA"} |->
                      IF k = "USE_MOCK_DATA" THEN b ELSE config[k]]
    /\ UNCHANGED <<app, service, pc, name, locals, result, response, calls,
                   chain_in, replies, threads>>

\* started with the Scrapin key and every Twitter credential
InitServe ==
    /\ Init
    /\ config["SCRAPIN_API_KEY"] # ""
    /\ \A k \in TwitterCredentialKeys : config[k] # ""

NextServe ==
    \/ Construct
    \/ RequestStep
    \/ NewRequest
    \/ ConfigSet

SpecServe == InitServe /\ [][NextServe]_vars

\* ----------------------------------------- the chains run in another order
\* the position of ice_break_with at its first, second and third chain
\* statement and behind them
StagePc == <<"summary_chain", "interests_chain", "ice_breaker_chain", "assemble">>

\* chain `c`, not run yet, is the k-th chain statement of ice_break_with
ChainInOrder(c, k) ==
    /\ chain_in[c] = None
    /\ ChainStep(c, SchemaOf(c), StagePc[k], StagePc[k + 1])

NextOrder ==
    \/ Construct
    \/ Ordinarily(Process)
    \/ Ordinarily(LinkedinLookup)
    \/ Ordinarily(LinkedinFetch)
    \/ Ordinarily(TwitterLookup)
    \/ Ordinarily(TwitterFetch)
    \/ \E c \in Chains, k \in 1..3 : Ordinarily(ChainInOrder(c, k))
    \/ Return

SpecOrder == InitServe /\ [][NextOrder]_vars

\* ------------------------------------------------- two requests at a time
\* the frame of the running request thread: the locals of process and of
\* ice_break_with, with the record kept of its calls and replies
Frame ==
    [pc |-> pc, name |-> name, linkedin_username |-> linkedin_username,
     linkedin_data |-> linkedin_data, twitter_username |-> twitter_username,
     tweets |-> tweets, summary_and_facts |-> summary_and_facts,
     interests |-> interests, ice_breakers |-> ice_breakers,
     profile_pic_url |-> profile_pic_url, result |-> result, response |-> response,
     calls |-> calls, chain_in |-> chain_in, replies |-> replies]

SwitchSharingProfile ==
    /\ app = "ready"
    /\ tid' = 3 - tid
    /\ parked' = Frame
    /\ pc' = parked.pc
    /\ name' = parked.name
    /\ linkedin_username' = parked.linkedin_username
    /\ linkedin_data' = linkedin_data
    /\ twitter_username' = parked.twitter_username
    /\ tweets' = parked.tweets
    /\ summary_and_facts' = parked.summary_and_facts
    /\ interests' = parked.interests
    /\ ice_breakers' = parked.ice_breakers
    /\ profile_pic_url' = parked.profile_pic_url
    /\ result' = parked.result
    /\ response' = parked.response
    /\ calls' = parked.calls
    /\ chain_in' = parked.chain_in
    /\ replies' = parked.replies
    /\ UNCHANGED <<config, app, service, served>>

\* the server hands the processor to the other request thread: the running
\* frame is parked and the parked one resumes where it stopped
Switch ==
    /\ app = "ready"
    /\ tid' = 3 - tid
    /\ parked' = Frame
    /\ pc' = parked.pc
    /\ name' = parked.name
    /\ linkedin_username' = parked.linkedin_username
    /\ linkedin_data' = parked.linkedin_data
    /\ twitter_username' = parked.twitter_username
    /\ tweets' = parked.tweets
    /\ summary_and_facts' = parked.summary_and_facts
    /\ interests' = parked.interests
    /\ ice_breakers' = parked.ice_breakers
    /\ profile_pic_url' = parked.profile_pic_url
    /\ result' = parked.result
    /\ response' = parked.response
    /\ calls' = parked.calls
    /\ chain_in' = parked.chain_in
    /\ replies' = parked.replies
    /\ UNCHANGED <<config, app, service, served>>

NextPair ==
    \/ Construct
    \/ RequestStep
    \/ Switch

\* started with every key and USE_MOCK_DATA supplied
InitPair ==
    /\ InitServe
    /\ config["OPENAI_API_KEY"] # ""
    /\ "USE_MOCK_DATA" \in DOMAIN config

SpecPair == InitPair /\ [][NextPair]_vars

\* what ice_break_with does for the name `nm` when it runs alone, from its
\* first statement to its last, against the answers `rp` of the channels
SoloResult(nm, rp) ==
    LET lu == LinkedinAgentLookup(nm, rp["linkedin"])
    IN  IF lu.raised THEN Raised(lu.exc) ELSE
    LET ld == IF UseMockProfile(use_mock, api_key)
              THEN Returned(GetMockProfile(lu.value))
              ELSE ScrapeLinkedinProfile(api_key, lu.value, rp["scrapin"])
    IN  IF ld.raised THEN Raised(ld.exc) ELSE
    LET tu == TwitterAgentLookup(nm, rp["twitter"])
    IN  IF tu.raised THEN Raised(tu.exc) ELSE
    LET tw == IF UseMockTweets(use_mock, client)
              THEN Returned(ScrapeUserTweetsMock(tu.value, DefaultMaxTweets))
              ELSE ScrapeUserTweets(client, tu.value, DefaultMaxTweets, rp["twitter_api"])
    IN  IF tw.raised THEN Raised(tw.exc) ELSE
    LET input == [information |-> ld.value, twitter_posts |-> tw.value]
        s == ChainInvoke("Summary", input, rp["summary"])
    IN  IF s.raised THEN Raised(s.exc) ELSE
    LET i == ChainInvoke("TopicOfInterest", input, rp["interests"])
    IN  IF i.raised THEN Raised(i.exc) ELSE
    LET b == ChainInvoke("IceBreaker", input, rp["ice_breaker"])
    IN  IF b.raised THEN Raised(b.exc) ELSE
        Returned(<<s.value, i.value, b.value, DictGet(ld.value, "photoUrl", "")>>)

\* the frame of request thread `t`
FrameOf(t) == IF tid = t THEN Frame ELSE parked

\* ------------------------------------------------------------------ claims
\* C1 (as stated): for every non-empty name, ice_break_with on a service
\* built with use_mock=True returns the 4-tuple and never raises, whatever
\* the resolvers and the language model answer or fail with.
C1_MockModeNeverRaises ==
    (use_mock /\ name # "" /\ pc = "responded") =>
        (IbwReturned /\ IsBriefingTuple(result.value))

\* C1 (amended): with use_mock=True and a non-empty name, ice_break_with
\* raises only when one of the three extraction chains fails; whatever the
\* resolvers answer or fail with, when all three chains succeed it returns
\* the 4-tuple of their results and the canned picture URL.
C1_MockModeRaisesOnlyOnExtractionFailure ==
    (use_mock /\ name # "" /\ pc = "responded") =>
        /\ result # None
        /\ result.raised => \E c \in Chains : ChainFailed(c)
        /\ (\A c \in Chains : replies[c] # None /\ ~ChainFailed(c)) => ~result.raised
        /\ ~result.raised =>
              /\ IsBriefingTuple(result.value)
              /\ result.value = <<summary_and_facts, interests, ice_breakers, MockPhotoUrl>>
              /\ response = SuccessResponse(result.value)

\* C1 witness: both resolvers failed, and the mock-mode request still
\* returned its tuple
C1_Witness ==
    /\ use_mock /\ name # "" /\ pc = "responded" /\ IbwReturned
    /\ replies["linkedin"].kind = "invoke_error"
    /\ replies["twitter"].kind = "bad_content"
    /\ IsBriefingTuple(result.value)

\* C2: if any one of the three extraction chains fails, ice_break_with
\* raises and returns no tuple, and /process answers the error shape
\* ({"error": ...}, 500) with none of the four briefing fields; no response
\* carries a strict subset of the briefing fields.
C2_ExtractionFailureAborts ==
    /\ \A c \in Chains :
         ChainFailed(c) =>
            /\ pc = "responded"
            /\ IbwRaised
            /\ "value" \notin DOMAIN result
            /\ response # None
            /\ response.status = 500
            /\ DOMAIN response.body = {"error"}
    /\ response # None =>
         /\ (DOMAIN response.body \cap BriefingFields) \in {{}, BriefingFields}
         /\ response.status = 200 <=> BriefingFields \subseteq DOMAIN response.body

\* C2 witness: the third chain failed after the first two had produced their
\* records, and the answer is the bare error shape
C2_Witness ==
    /\ ChainFailed("ice_breaker")
    /\ summary_and_facts # None /\ interests # None
    /\ response = ErrorResponse("OutputParserException")

\* C3: for each chain, a reply that omits a required field of the target
\* schema, carries it with the wrong type, or is no JSON at all makes the
\* chain raise; a record a chain returns has every required field, with the
\* value the reply gave it.
C3_SchemaEnforced ==
    \A c \in Chains :
        (replies[c] # None /\ replies[c].kind = "text") =>
            LET t == replies[c].text
                required == RequiredFields(SchemaOf(c))
            IN  /\ ("json" \notin DOMAIN t
                     \/ \E f \in required :
                          f \notin DOMAIN t.json \/ DOMAIN t.json[f] # {FieldType(f)}) =>
                        /\ ChainLocal(c) = None
                        /\ IbwRaised
                        /\ result.exc = "OutputParserException"
                /\ ChainLocal(c) # None =>
                        /\ Conforms(SchemaOf(c), ChainLocal(c))
                        /\ \A f \in required :
                             /\ f \in DOMAIN t.json
                             /\ ChainLocal(c)[f] = Untag(t.json[f])

\* C3 witness: the model answered the summary prompt with an object that has
\* "summary" but no "facts", and the chain raised
C3_Witness ==
    /\ replies["summary"] # None /\ replies["summary"].kind = "text"
    /\ "json" \in DOMAIN replies["summary"].text
    /\ DOMAIN replies["summary"].text.json = {"summary"}
    /\ summary_and_facts = None
    /\ IbwRaised /\ result.exc = "OutputParserException"

C5_FetchersDegradeOnFailure ==
    /\ (replies["scrapin"] # None /\ replies["scrapin"].kind = "raises") =>
         /\ ProfileFetched
         /\ "error" \in DOMAIN linkedin_data
         /\ linkedin_data.profile_pic = ""
         /\ linkedin_data.summary = ""
         /\ linkedin_data.experiences = <<>>
    /\ (replies["twitter_api"] # None
          /\ replies["twitter_api"].kind \in {"user_raises", "tweets_raises"}) =>
         /\ TweetsFetched
         /\ tweets = <<>>

\* C6: a fetch failure of any kind, missing credentials for the profile-data
\* service in real mode included, is absorbed at the fetcher as an
\* empty/error-marked data object and never makes ice_break_with raise.
C6_FetchFailureNeverAborts ==
    /\ Called("linkedin_service.scrape_linkedin_profile") => ProfileFetched
    /\ Called("twitter_service.scrape_user_tweets") => TweetsFetched
    /\ IbwRaised => \E c \in Chains : ChainFailed(c)

\* C7: when the identifier passed to a real-mode fetcher is the not-found
\* sentinel, the fetcher returns an empty/error result without issuing any
\* request to the external service.
C7_SentinelShortCircuits ==
    /\ (Called("linkedin_service.scrape_linkedin_profile")
          /\ linkedin_username = LinkedinSentinel) =>
         ~Called("scrapin:requests.post")
    /\ (Called("twitter_service.scrape_user_tweets")
          /\ twitter_username = TwitterSentinel) =>
         (~Called("twitter:get_user") /\ ~Called("twitter:get_users_tweets"))

\* C8: a request whose name is the empty string is rejected, in real and in
\* substitute mode, before any external channel is invoked.
C8_EmptyNameRejected ==
    (pc # "idle" /\ name = "") =>
        /\ \A i \in DOMAIN calls : calls[i] \notin ExternalCalls
        /\ pc = "responded" => (response # None /\ response.status # 200)

\* C9: when TwitterService.client is None, ice_break_with fetches the posts
\* with scrape_user_tweets_mock whatever use_mock is and never calls
\* scrape_user_tweets; the posts handed to the chains are the canned five
\* posts cut to the limit, for every resolved identifier; the profile fetch
\* still follows use_mock.
C9_NoClientFallsBackToMockPosts ==
    (app = "ready" /\ client = "None") =>
        /\ ~Called("twitter_service.scrape_user_tweets")
        /\ ~Called("twitter:get_user") /\ ~Called("twitter:get_users_tweets")
        /\ TweetsFetched =>
             /\ Called("twitter_service.scrape_user_tweets_mock")
             /\ tweets = SubSeq(MockTweets, 1, Min(DefaultMaxTweets, Len(MockTweets)))
        /\ \A c \in Chains :
             chain_in[c] # None =>
                chain_in[c].twitter_posts =
                    FormatTweets(SubSeq(MockTweets, 1, Min(DefaultMaxTweets, Len(MockTweets))))
        /\ ProfileFetched =>
             /\ Called("linkedin_service.get_mock_profile") <=> use_mock
             /\ Called("linkedin_service.scrape_linkedin_profile") <=> ~use_mock

\* C9 witness: real mode, every credential configured but the client could
\* not be built; the identifier resolved, and the chains got the canned posts
C9_Witness ==
    /\ app = "ready" /\ ~use_mock /\ client = "None"
    /\ \A k \in TwitterCredentialKeys : config[k] # ""
    /\ twitter_username = <<"jane">>
    /\ Called("linkedin_service.scrape_linkedin_profile")
    /\ chain_in["ice_breaker"] # None
    /\ chain_in["ice_breaker"].twitter_posts = FormatTweets(MockTweets)

\* C10: the list returned by scrape_user_tweets and by
\* scrape_user_tweets_mock is never longer than the requested limit, however
\* many posts the upstream source holds or returns; with at least `limit`
\* posts on hand the result is exactly the first `limit` posts in source order.
C10_PostsCapped ==
    TweetsFetched =>
        /\ Len(tweets) <= DefaultMaxTweets
        /\ Called("twitter_service.scrape_user_tweets_mock") =>
             tweets = SubSeq(MockTweets, 1, DefaultMaxTweets)
        /\ (replies["twitter_api"] # None /\ replies["twitter_api"].kind = "tweets"
              /\ replies["twitter_api"].n >= DefaultMaxTweets) =>
             tweets = SubSeq(Timeline, 1, DefaultMaxTweets)

C12_PictureUrlFromProfile ==
    IbwReturned =>
        /\ response.body.picture_url = result.value[4]
        /\ result.value[4] =
              IF "photoUrl" \in DOMAIN linkedin_data THEN linkedin_data.photoUrl ELSE ""
        /\ use_mock => result.value[4] = "https://example.com/profile.jpg"
        /\ "error" \in DOMAIN linkedin_data => result.value[4] = ""
        /\ (~use_mock /\ replies["scrapin"].kind = "ok") =>
              result.value[4] =
                 IF "photoUrl" \in DOMAIN replies["scrapin"].json
                 THEN replies["scrapin"].json.photoUrl ELSE ""

\* C12 witness: a real-mode request returned the picture URL of the
\* document the Scrapin API sent
C12_Witness ==
    /\ IbwReturned /\ ~use_mock
    /\ replies["scrapin"].kind = "ok"
    /\ "photoUrl" \in DOMAIN replies["scrapin"].json
    /\ result.value[4] = "https://cdn.example/jane.jpg"
    /\ response.body.picture_url = "https://cdn.example/jane.jpg"

\* C14: in mock mode every chain that is invoked is handed the canned
\* profile document and the canned posts: one fixed value, whatever the
\* name of the request and whatever the two resolvers returned.
C14_MockInputFixed ==
    (app = "ready" /\ use_mock) =>
        /\ ProfileFetched => linkedin_data = MockProfile
        /\ TweetsFetched => tweets = MockTweets
        /\ \A c \in Chains :
             chain_in[c] # None =>
                chain_in[c] = ChainPrompt([information |-> MockProfile,
                                           twitter_posts |-> MockTweets])

\* C14 witness: a mock-mode request whose resolvers found nothing reached
\* the last chain with the canned input
C14_Witness ==
    /\ use_mock /\ name = "Jane Smith"
    /\ linkedin_username = LinkedinSentinel
    /\ twitter_username = TwitterSentinel
    /\ chain_in["ice_breaker"] =
          ChainPrompt([information |-> MockProfile, twitter_posts |-> MockTweets])

\* C15: with an empty OPENAI_API_KEY the constructor of each agent and of
\* the chain factory raises, so the service is never constructed: no request
\* is processed or answered and no external channel is ever invoked.
C15_NoModelKeyNoService ==
    ~Truthy(ConfigGet(config, "OPENAI_API_KEY", "")) =>
        /\ InitializeLLM(config) = Raised("ValueError")
        /\ app \in {"boot", "crashed"}
        /\ pc = "idle"
        /\ result = None /\ response = None
        /\ calls = <<>>
        /\ \A ch \in Channels : replies[ch] = None

\* C15 witness: every other credential is configured, the model key is
\* empty, and construction has raised
C15_Witness ==
    /\ app = "crashed"
    /\ config["OPENAI_API_KEY"] = ""
    /\ config["SCRAPIN_API_KEY"] # ""
    /\ \A k \in TwitterCredentialKeys : config[k] # ""
    /\ calls = <<>>

\* the profile fetch / the post fetch of the request has been started
ProfileFetchStarted ==
    Called("linkedin_service.get_mock_profile") \/ Called("linkedin_service.scrape_linkedin_profile")
PostFetchStarted ==
    Called("twitter_service.scrape_user_tweets_mock") \/ Called("twitter_service.scrape_user_tweets")

\* the chain has been started
ChainStarted(c) == Called(c \o "_chain.invoke")

\* the position of the first invocation of `m` in the request
PosOf(m) == CHOOSE i \in DOMAIN calls : calls[i] = m /\ \A j \in 1..(i - 1) : calls[j] # m

\* `a` was invoked, and before `b`
InvokedBefore(a, b) == Called(a) /\ PosOf(a) < PosOf(b)

TimesCalled(m) == Cardinality({i \in DOMAIN calls : calls[i] = m})

\* the profile fetch / the post fetch was started and raised
ProfileFetchRaised == ProfileFetchStarted /\ ~ProfileFetched
PostFetchRaised == PostFetchStarted /\ ~TweetsFetched

C13_ModeFixedAtConstruction ==
    /\ [][app = "ready" => use_mock' = use_mock]_vars
    /\ [](app = "ready" =>
            /\ use_mock =>
                 /\ ~Called("linkedin_service.scrape_linkedin_profile")
                 /\ ~Called("scrapin:requests.post")
                 /\ ~Called("twitter_service.scrape_user_tweets")
                 /\ ~Called("twitter:get_user") /\ ~Called("twitter:get_users_tweets")
                 /\ ProfileFetched => Called("linkedin_service.get_mock_profile")
            /\ ~use_mock =>
                 /\ ~Called("linkedin_service.get_mock_profile")
                 /\ ProfileFetched => Called("linkedin_service.scrape_linkedin_profile"))

\* C13 witness: a service built in mock mode, USE_MOCK_DATA set to False
\* since, and its second request has fetched the canned profile and posts
C13_Witness ==
    /\ app = "ready" /\ use_mock
    /\ ConfigGet(config, "USE_MOCK_DATA", FALSE) = FALSE
    /\ served = 1
    /\ Called("linkedin_service.get_mock_profile")
    /\ Called("twitter_service.scrape_user_tweets_mock")
    /\ linkedin_data = MockProfile

\* what the parser makes of the reply chain `c` received
ParsedReply(c) == ParserParse(SchemaOf(c), replies[c].text).value

\* C18: whatever the order of the three chain statements, every chain is
\* invoked with the fetched profile data and the fetched posts and never
\* with the result of another chain; the outcome of the request is fixed by
\* the replies the model gives the chains: it aborts exactly when a reply is
\* unusable, and otherwise returns the tuple of the three parsed replies.
C18_ChainsIndependentOfOrder ==
    /\ \A c \in Chains :
         chain_in[c] # None =>
            /\ chain_in[c] = ChainPrompt([information |-> linkedin_data, twitter_posts |-> tweets])
            /\ \A d \in Chains \ {c} :
                 ChainLocal(d) # None => chain_in[c].information # ChainLocal(d)
            /\ \A d \in Chains : chain_in[d] # None => chain_in[d] = chain_in[c]
    /\ \A c \in Chains : ChainFailed(c) => IbwRaised
    /\ (\E c \in Chains : ChainStarted(c)) =>
          /\ IbwRaised => \E c \in Chains : ChainFailed(c)
          /\ IbwReturned =>
                /\ \A c \in Chains : replies[c] # None /\ ~ChainFailed(c)
                /\ result.value = <<ParsedReply("summary"), ParsedReply("interests"),
                                    ParsedReply("ice_breaker"),
                                    DictGet(linkedin_data, "photoUrl", "")>>

\* C18 witness: the ice-breaker chain ran first and the summary chain last,
\* and the request returned the tuple of the three parsed replies
C18_Witness ==
    /\ IbwReturned
    /\ InvokedBefore("ice_breaker_chain.invoke", "interests_chain.invoke")
    /\ InvokedBefore("interests_chain.invoke", "summary_chain.invoke")
    /\ result.value[1] = ParsedReply("summary")
    /\ result.value[3] = ParsedReply("ice_breaker")

\* C19: no step of a request changes a field of the constructed service;
\* and with two request threads interleaved at every statement, the result
\* of each thread is the result ice_break_with gives when it runs alone for
\* that thread's name against the answers that thread received, and the
\* response of each thread carries that result.
C19_RequestsIndependent ==
    /\ [][app = "ready" => UNCHANGED <<use_mock, api_key, client>>]_vars
    /\ [](\A t \in {1, 2} :
            FrameOf(t).result # None =>
               /\ FrameOf(t).result = SoloResult(FrameOf(t).name, FrameOf(t).replies)
               /\ FrameOf(t).pc = "responded"
               /\ FrameOf(t).response =
                     IF FrameOf(t).result.raised
                     THEN ErrorResponse(FrameOf(t).result.exc)
                     ELSE SuccessResponse(FrameOf(t).result.value))

\* C19 witness: while one real-mode request waits before its assembly with
\* a profile that has a picture, the other has fetched the degraded profile
\* and returned the empty picture URL
C19_Witness ==
    /\ ~use_mock
    /\ parked.pc = "assemble"
    /\ DictGet(parked.linkedin_data, "photoUrl", "") = "https://cdn.example/jane.jpg"
    /\ pc = "responded" /\ IbwReturned
    /\ "error" \in DOMAIN linkedin_data
    /\ result.value[4] = ""
    /\ result = SoloResult(name, replies)

====
